---- MODULE Spec2Model ----
(***************************************************************************)
(* The VRRP v3 router core of vrrp-rs: Router::handle_input (router.rs),   *)
(* the lazy Actions stream it returns (actions.rs), and the timer          *)
(* arithmetic of Parameters and Interval (parameters.rs, interval.rs).     *)
(*                                                                         *)
(* An Instant is a count of milliseconds, an Interval a u16 count of       *)
(* centiseconds, an Ipv4Addr a tuple of four octets, a MacAddr a tuple of  *)
(* six octets.  An Option<T> is a sequence of length 0 (None) or 1 (Some). *)
(***************************************************************************)
EXTENDS Integers, Sequences, FiniteSets

VARIABLES parameters, mac_address, state, clock, stream, emitted, call

vars == <<parameters, mac_address, state, clock, stream, emitted, call>>

(***************************************************************************)
(* Program constants.                                                      *)
(***************************************************************************)
U8 == 256
U16 == 65536
U8_MAX == 255
SHUTDOWN == 0
OWNER == 255
DEFAULT_PRIORITY == 100
MILLIS_PER_CENTI == 10
SKEW_BASE == 256
FROM_SECS_FACTOR == 10
DOWN_FACTOR == 3

(***************************************************************************)
(* Bounds of the model.                                                    *)
(***************************************************************************)
MaxTick == 4
MaxInterval == 2

Instants == { MILLIS_PER_CENTI * k : k \in 0..MaxTick }
Intervals == 1..MaxInterval

V1 == <<1, 1, 1, 1>>
V2 == <<2, 2, 2, 2>>
OTHER_IP == <<5, 2, 5, 2>>
IP_LOW == <<1, 0, 0, 2>>
IP_MID == <<2, 0, 0, 1>>
IP_HIGH == <<2, 0, 1, 0>>
TEST_SENDER_MAC == <<2, 5, 2, 5, 2, 5>>

AddressLists == { <<V1, V2>>, <<V2>> }
PrimaryIPs == { IP_MID }
SenderIPs == { IP_LOW, IP_MID, IP_HIGH }
TargetIPs == { V1, V2, OTHER_IP }
OwnPriorities == { DEFAULT_PRIORITY, 200 }
SenderPriorities == { DEFAULT_PRIORITY, 200, OWNER }
VRIDs == { 1 }

(***************************************************************************)
(* Mode and Parameters.                                                    *)
(***************************************************************************)
ModeOwner == [owner |-> TRUE]

BackupMode(ip, prio, preempt, accept) ==
    [owner |-> FALSE, preempt |-> preempt, accept |-> accept,
     primary_ip |-> ip, priority |-> prio]

Modes ==
    {ModeOwner} \cup
    { BackupMode(ip, prio, pre, acc) :
        ip \in PrimaryIPs, prio \in OwnPriorities,
        pre \in BOOLEAN, acc \in BOOLEAN }

Parameters(addrs) ==
    { [vrid |-> v, virtual_addresses |-> a,
       advertisement_interval |-> i, mode |-> m] :
        v \in VRIDs, a \in addrs, i \in Intervals, m \in Modes }

priority(mode) == IF mode.owner THEN OWNER ELSE mode.priority

should_accept(mode) == IF mode.owner THEN TRUE ELSE mode.accept

should_preempt(mode) == IF mode.owner THEN TRUE ELSE mode.preempt

primary_ip(p) ==
    IF p.mode.owner THEN p.virtual_addresses[1] ELSE p.mode.primary_ip

mac_address_of(p) == <<0, 0, 94, 0, 1, p.vrid>>

contains(addrs, ip) == \E k \in 1..Len(addrs) : addrs[k] = ip

(***************************************************************************)
(* Interval arithmetic on u16 and Instant + Interval.                      *)
(***************************************************************************)
from_centis(centiseconds) == centiseconds

from_secs(seconds) == from_centis((FROM_SECS_FACTOR * seconds) % U16)

interval_add(a, b) == (a + b) % U16

interval_mul(n, i) == (n * i) % U16

interval_div(i, n) == i \div n

into_duration(i) == i * MILLIS_PER_CENTI

instant_add(t, i) == t + into_duration(i)

skew_time(p, i) ==
    interval_div(interval_mul(SKEW_BASE - priority(p.mode), i), SKEW_BASE)

active_down_interval(p, i) ==
    interval_add(interval_mul(DOWN_FACTOR, i), skew_time(p, i))

(***************************************************************************)
(* Ordering of NonZeroU8 and of Ipv4Addr (octets, most significant first). *)
(***************************************************************************)
u8_cmp(a, b) == IF a < b THEN "Less" ELSE IF a = b THEN "Equal" ELSE "Greater"

RECURSIVE octets_cmp(_, _, _)
octets_cmp(a, b, k) ==
    IF k > Len(a) THEN "Equal"
    ELSE IF a[k] < b[k] THEN "Less"
    ELSE IF a[k] > b[k] THEN "Greater"
    ELSE octets_cmp(a, b, k + 1)

ip_cmp_little_endian(a, b) ==
    octets_cmp(<<a[4], a[3], a[2], a[1]>>, <<b[4], b[3], b[2], b[1]>>, 1)

ip_cmp(a, b) == octets_cmp(a, b, 1)

(***************************************************************************)
(* State.                                                                  *)
(***************************************************************************)
Initialized == [tag |-> "Initialized"]

Backup(timer, interval) ==
    [tag |-> "Backup", active_down_timer |-> timer,
     active_adver_interval |-> interval]

Active(timer) == [tag |-> "Active", adver_timer |-> timer]

(***************************************************************************)
(* Action, SendPacket, RoutePacket.                                        *)
(***************************************************************************)
Activate == [type |-> "Activate"]

Deactivate == [type |-> "Deactivate"]

Send(packet) == [type |-> "Send", packet |-> packet]

Route(r) == [type |-> "Route", route |-> r]

Advertisement(prio, interval) ==
    [priority |-> prio, interval |-> interval, kind |-> "Advertisement"]

GratuitousARP(mac, ip) ==
    [kind |-> "GratuitousARP", sender_mac |-> mac, sender_ip |-> ip]

ReplyARP(smac, sip, tmac, tip) ==
    [kind |-> "ReplyARP", sender_mac |-> smac, sender_ip |-> sip,
     target_mac |-> tmac, target_ip |-> tip]

(***************************************************************************)
(* Actions: the iterator handle_input returns.                             *)
(***************************************************************************)
ActionsNone == [kind |-> "None"]

OneAction(opt) == [kind |-> "OneAction", action |-> opt]

TransitionToActive(st) == [kind |-> "TransitionToActive", st |-> st]

ShutdownActive(st) == [kind |-> "ShutdownActive", st |-> st]

Dropped == [kind |-> "Dropped"]

TtaActivate == [tag |-> "Activate"]

TtaAdvertisment == [tag |-> "Advertisment"]

NextARP(offset) == [tag |-> "NextARP", offset |-> offset]

Step(item, rest) == [item |-> item, actions |-> rest]

SendAdvertisement(p) ==
    Send(Advertisement(priority(p.mode), p.advertisement_interval))

TransitionToActive_next_action(st, p) ==
    IF st.tag = "Activate"
    THEN Step(<<Activate>>, TransitionToActive(TtaAdvertisment))
    ELSE IF st.tag = "Advertisment"
    THEN Step(<<SendAdvertisement(p)>>, TransitionToActive(NextARP(0)))
    ELSE IF st.offset <= U8_MAX /\ st.offset < Len(p.virtual_addresses) % U8
    THEN Step(<<Send(GratuitousARP(mac_address_of(p),
                                   p.virtual_addresses[st.offset + 1]))>>,
              TransitionToActive(NextARP((st.offset + 1) % U8)))
    ELSE Step(<<>>, TransitionToActive(st))

ShutdownActive_own_priority(st, p) ==
    IF st = "Advertisment"
    THEN Step(<<SendAdvertisement(p)>>, ShutdownActive("Deactivate"))
    ELSE IF st = "Deactivate"
    THEN Step(<<Deactivate>>, ShutdownActive("Done"))
    ELSE Step(<<>>, ShutdownActive(st))

ShutdownActive_next_action(st, p) ==
    IF st = "Advertisment"
    THEN Step(<<Send(Advertisement(SHUTDOWN, p.advertisement_interval))>>,
              ShutdownActive("Deactivate"))
    ELSE IF st = "Deactivate"
    THEN Step(<<Deactivate>>, ShutdownActive("Done"))
    ELSE Step(<<>>, ShutdownActive(st))

Actions_next(a, p) ==
    IF a.kind = "ShutdownActive" THEN ShutdownActive_next_action(a.st, p)
    ELSE IF a.kind = "TransitionToActive"
    THEN TransitionToActive_next_action(a.st, p)
    ELSE IF a.kind = "OneAction" THEN Step(a.action, OneAction(<<>>))
    ELSE Step(<<>>, a)

(***************************************************************************)
(* Router: the private helpers of handle_input.  Each returns the new      *)
(* state and the Actions value.                                            *)
(***************************************************************************)
Ret(s, a) == [state |-> s, actions |-> a]

is_owner_never(p) == FALSE

is_owner(p) == p.mode.owner

is_associated_address_first_only(p, ip) == p.virtual_addresses[1] = ip

is_associated_address(p, ip) == contains(p.virtual_addresses, ip)

should_accept_packets_for_any(p, ip) == should_accept(p.mode)

should_accept_packets_for(p, ip) ==
    should_accept(p.mode) /\ is_associated_address(p, ip)

adver_timer(p, now) == instant_add(now, p.advertisement_interval)

active_down_timer(p, now, interval) ==
    instant_add(now, active_down_interval(p, interval))

active_down_timer_for_shutdown_full(p, now, interval) ==
    instant_add(now, active_down_interval(p, interval))

active_down_timer_for_shutdown(p, now, interval) ==
    instant_add(now, skew_time(p, interval))

is_greater_priority_than(p, sender_priority) ==
    IF p.mode.owner THEN TRUE ELSE p.mode.priority > sender_priority

transition_to_active(p, now) ==
    Ret(Active(adver_timer(p, now)), TransitionToActive(TtaActivate))

startup_short_timer(p, now) ==
    IF is_owner(p)
    THEN transition_to_active(p, now)
    ELSE Ret(Backup(active_down_timer_for_shutdown(p, now,
                                                   p.advertisement_interval),
                    p.advertisement_interval),
             ActionsNone)

startup(p, now) ==
    IF is_owner(p)
    THEN transition_to_active(p, now)
    ELSE Ret(Backup(active_down_timer(p, now, p.advertisement_interval),
                    p.advertisement_interval),
             ActionsNone)

send_advertisment_timer_kept(p, now) ==
    Ret(Active(now), OneAction(<<SendAdvertisement(p)>>))

send_advertisment(p, now) ==
    Ret(Active(adver_timer(p, now)), OneAction(<<SendAdvertisement(p)>>))

deactivate_and_transition_to_backup(p, now, interval) ==
    Ret(Backup(active_down_timer(p, now, interval), interval),
        OneAction(<<Deactivate>>))

handle_active_advertisement_asserts(p, now, sender_ip, sender_priority, interval) ==
    send_advertisment(p, now)

handle_active_advertisement_ge(p, now, sender_ip, sender_priority, interval) ==
    LET by_priority == u8_cmp(sender_priority, priority(p.mode))
        by_ip == ip_cmp(sender_ip, primary_ip(p))
    IN  IF by_priority = "Greater"
           \/ (by_priority = "Equal" /\ by_ip # "Less")
        THEN deactivate_and_transition_to_backup(p, now, interval)
        ELSE send_advertisment(p, now)

handle_active_advertisement(p, now, sender_ip, sender_priority, interval) ==
    LET by_priority == u8_cmp(sender_priority, priority(p.mode))
        by_ip == ip_cmp(sender_ip, primary_ip(p))
    IN  IF by_priority = "Greater"
           \/ (by_priority = "Equal" /\ by_ip = "Greater")
        THEN deactivate_and_transition_to_backup(p, now, interval)
        ELSE send_advertisment(p, now)

update_active_down_timer_preempting(p, st, now, active_priority, interval) ==
    IF ~is_greater_priority_than(p, active_priority)
    THEN Ret(Backup(active_down_timer(p, now, interval), interval),
             ActionsNone)
    ELSE Ret(st, ActionsNone)

update_active_down_timer_always(p, st, now, active_priority, interval) ==
    Ret(Backup(active_down_timer(p, now, interval), interval), ActionsNone)

update_active_down_timer(p, st, now, active_priority, interval) ==
    IF ~should_preempt(p.mode) \/ ~is_greater_priority_than(p, active_priority)
    THEN Ret(Backup(active_down_timer(p, now, interval), interval),
             ActionsNone)
    ELSE Ret(st, ActionsNone)

update_active_down_timer_for_shutdown_from_epoch(p, now, interval) ==
    Ret(Backup(active_down_timer_for_shutdown(p, 0, interval), interval),
        ActionsNone)

update_active_down_timer_for_shutdown(p, now, interval) ==
    Ret(Backup(active_down_timer_for_shutdown(p, now, interval), interval),
        ActionsNone)

route_ip_packet_deactivates(p, mac, st, target_mac, target_ip) ==
    IF target_mac # mac THEN Ret(Initialized, ActionsNone)
    ELSE IF should_accept_packets_for(p, target_ip)
    THEN Ret(st, OneAction(<<Route("Accept")>>))
    ELSE Ret(st, OneAction(<<Route("Forward")>>))

route_ip_packet(p, mac, st, target_mac, target_ip) ==
    IF target_mac # mac THEN Ret(st, ActionsNone)
    ELSE IF should_accept_packets_for(p, target_ip)
    THEN Ret(st, OneAction(<<Route("Accept")>>))
    ELSE Ret(st, OneAction(<<Route("Forward")>>))

shutdown_active(p) == Ret(Initialized, ShutdownActive("Advertisment"))

shutdown_backup_announces(p) == Ret(Initialized, ShutdownActive("Advertisment"))

shutdown_backup(p) == Ret(Initialized, ActionsNone)

(***************************************************************************)
(* Input.                                                                  *)
(***************************************************************************)
CommandStartup == [kind |-> "Startup"]

CommandShutdown == [kind |-> "Shutdown"]

InputTimer == [kind |-> "Timer"]

ShutdownAdvertisementPacket(interval) ==
    [kind |-> "ShutdownAdvertisement", max_advertise_interval |-> interval]

AdvertisementPacket(ip, prio, interval) ==
    [priority |-> prio, kind |-> "Advertisement", sender_ip |-> ip,
     max_advertise_interval |-> interval]

RequestARPPacket(smac, sip, tip) ==
    [kind |-> "RequestARP", sender_mac |-> smac, sender_ip |-> sip,
     target_ip |-> tip]

IPPacket(tmac, tip) == [kind |-> "IP", target_mac |-> tmac, target_ip |-> tip]

(***************************************************************************)
(* Router::handle_input, one operator per arm of the match on the state.   *)
(***************************************************************************)
handle_initialized_timer_starts(p, st, now, input) ==
    IF input.kind = "Startup" \/ input.kind = "Timer" THEN startup(p, now)
    ELSE IF input.kind = "IP" THEN Ret(st, OneAction(<<Route("Reject")>>))
    ELSE Ret(st, ActionsNone)

handle_initialized(p, st, now, input) ==
    IF input.kind = "Startup" THEN startup(p, now)
    ELSE IF input.kind = "IP" THEN Ret(st, OneAction(<<Route("Reject")>>))
    ELSE Ret(st, ActionsNone)

handle_active_shutdown_demotes(p, mac, st, now, input) ==
    IF input.kind = "Shutdown" THEN shutdown_active(p)
    ELSE IF input.kind = "Startup" THEN Ret(st, ActionsNone)
    ELSE IF input.kind = "ShutdownAdvertisement"
    THEN deactivate_and_transition_to_backup(p, now,
                                             input.max_advertise_interval)
    ELSE IF input.kind = "Advertisement"
    THEN handle_active_advertisement(p, now, input.sender_ip, input.priority,
                                     input.max_advertise_interval)
    ELSE IF input.kind = "Timer"
    THEN IF now >= st.adver_timer
         THEN send_advertisment(p, now)
         ELSE Ret(st, ActionsNone)
    ELSE IF input.kind = "RequestARP"
    THEN IF is_associated_address(p, input.target_ip)
         THEN Ret(st, OneAction(<<Send(ReplyARP(mac, input.target_ip,
                                                input.sender_mac,
                                                input.sender_ip))>>))
         ELSE Ret(st, ActionsNone)
    ELSE route_ip_packet(p, mac, st, input.target_mac, input.target_ip)

handle_active_timer_late(p, mac, st, now, input) ==
    IF input.kind = "Shutdown" THEN shutdown_active(p)
    ELSE IF input.kind = "Startup" THEN Ret(st, ActionsNone)
    ELSE IF input.kind = "ShutdownAdvertisement" THEN send_advertisment(p, now)
    ELSE IF input.kind = "Advertisement"
    THEN handle_active_advertisement(p, now, input.sender_ip, input.priority,
                                     input.max_advertise_interval)
    ELSE IF input.kind = "Timer"
    THEN IF now > st.adver_timer
         THEN send_advertisment(p, now)
         ELSE Ret(st, ActionsNone)
    ELSE IF input.kind = "RequestARP"
    THEN IF is_associated_address(p, input.target_ip)
         THEN Ret(st, OneAction(<<Send(ReplyARP(mac, input.target_ip,
                                                input.sender_mac,
                                                input.sender_ip))>>))
         ELSE Ret(st, ActionsNone)
    ELSE route_ip_packet(p, mac, st, input.target_mac, input.target_ip)

handle_active_startup_repromotes(p, mac, st, now, input) ==
    IF input.kind = "Shutdown" THEN shutdown_active(p)
    ELSE IF input.kind = "Startup" THEN transition_to_active(p, now)
    ELSE IF input.kind = "ShutdownAdvertisement" THEN send_advertisment(p, now)
    ELSE IF input.kind = "Advertisement"
    THEN handle_active_advertisement(p, now, input.sender_ip, input.priority,
                                     input.max_advertise_interval)
    ELSE IF input.kind = "Timer"
    THEN IF now >= st.adver_timer
         THEN send_advertisment(p, now)
         ELSE Ret(st, ActionsNone)
    ELSE IF input.kind = "RequestARP"
    THEN IF is_associated_address(p, input.target_ip)
         THEN Ret(st, OneAction(<<Send(ReplyARP(mac, input.target_ip,
                                                input.sender_mac,
                                                input.sender_ip))>>))
         ELSE Ret(st, ActionsNone)
    ELSE route_ip_packet(p, mac, st, input.target_mac, input.target_ip)

handle_active(p, mac, st, now, input) ==
    IF input.kind = "Shutdown" THEN shutdown_active(p)
    ELSE IF input.kind = "Startup" THEN Ret(st, ActionsNone)
    ELSE IF input.kind = "ShutdownAdvertisement" THEN send_advertisment(p, now)
    ELSE IF input.kind = "Advertisement"
    THEN handle_active_advertisement(p, now, input.sender_ip, input.priority,
                                     input.max_advertise_interval)
    ELSE IF input.kind = "Timer"
    THEN IF now >= st.adver_timer
         THEN send_advertisment(p, now)
         ELSE Ret(st, ActionsNone)
    ELSE IF input.kind = "RequestARP"
    THEN IF is_associated_address(p, input.target_ip)
         THEN Ret(st, OneAction(<<Send(ReplyARP(mac, input.target_ip,
                                                input.sender_mac,
                                                input.sender_ip))>>))
         ELSE Ret(st, ActionsNone)
    ELSE route_ip_packet(p, mac, st, input.target_mac, input.target_ip)

handle_backup_ip_silent(p, st, now, input) ==
    IF input.kind = "Timer"
    THEN IF now >= st.active_down_timer
         THEN transition_to_active(p, now)
         ELSE Ret(st, ActionsNone)
    ELSE IF input.kind = "Startup" THEN transition_to_active(p, now)
    ELSE IF input.kind = "Shutdown" THEN shutdown_backup(p)
    ELSE IF input.kind = "ShutdownAdvertisement"
    THEN update_active_down_timer_for_shutdown(p, now,
                                               input.max_advertise_interval)
    ELSE IF input.kind = "Advertisement"
    THEN update_active_down_timer(p, st, now, input.priority,
                                  input.max_advertise_interval)
    ELSE Ret(st, ActionsNone)

handle_backup_timer_ignored(p, st, now, input) ==
    IF input.kind = "Timer" THEN Ret(st, ActionsNone)
    ELSE IF input.kind = "Startup" THEN transition_to_active(p, now)
    ELSE IF input.kind = "Shutdown" THEN shutdown_backup(p)
    ELSE IF input.kind = "ShutdownAdvertisement"
    THEN update_active_down_timer_for_shutdown(p, now,
                                               input.max_advertise_interval)
    ELSE IF input.kind = "Advertisement"
    THEN update_active_down_timer(p, st, now, input.priority,
                                  input.max_advertise_interval)
    ELSE IF input.kind = "IP" THEN Ret(st, OneAction(<<Route("Reject")>>))
    ELSE Ret(st, ActionsNone)

handle_backup_timer_late(p, st, now, input) ==
    IF input.kind = "Timer"
    THEN IF now > st.active_down_timer
         THEN transition_to_active(p, now)
         ELSE Ret(st, ActionsNone)
    ELSE IF input.kind = "Startup" THEN transition_to_active(p, now)
    ELSE IF input.kind = "Shutdown" THEN shutdown_backup(p)
    ELSE IF input.kind = "ShutdownAdvertisement"
    THEN update_active_down_timer_for_shutdown(p, now,
                                               input.max_advertise_interval)
    ELSE IF input.kind = "Advertisement"
    THEN update_active_down_timer(p, st, now, input.priority,
                                  input.max_advertise_interval)
    ELSE IF input.kind = "IP" THEN Ret(st, OneAction(<<Route("Reject")>>))
    ELSE Ret(st, ActionsNone)

handle_backup(p, st, now, input) ==
    IF input.kind = "Timer"
    THEN IF now >= st.active_down_timer
         THEN transition_to_active(p, now)
         ELSE Ret(st, ActionsNone)
    ELSE IF input.kind = "Startup" THEN transition_to_active(p, now)
    ELSE IF input.kind = "Shutdown" THEN shutdown_backup(p)
    ELSE IF input.kind = "ShutdownAdvertisement"
    THEN update_active_down_timer_for_shutdown(p, now,
                                               input.max_advertise_interval)
    ELSE IF input.kind = "Advertisement"
    THEN update_active_down_timer(p, st, now, input.priority,
                                  input.max_advertise_interval)
    ELSE IF input.kind = "IP" THEN Ret(st, OneAction(<<Route("Reject")>>))
    ELSE Ret(st, ActionsNone)

handle_input(p, mac, st, now, input) ==
    IF st.tag = "Initialized" THEN handle_initialized(p, st, now, input)
    ELSE IF st.tag = "Active" THEN handle_active(p, mac, st, now, input)
    ELSE handle_backup(p, st, now, input)

(***************************************************************************)
(* The embedder's calls.  `call` records the handle_input call whose       *)
(* stream is still borrowed: its instant, its input and the state before.  *)
(***************************************************************************)
NoCall == [live |-> FALSE]

CallOf(now, input, before) ==
    [now |-> now, input |-> input, live |-> TRUE, before |-> before]

Router_new(p) ==
    /\ parameters = p
    /\ mac_address = mac_address_of(p)
    /\ state = Initialized
    /\ clock = 0
    /\ stream = Dropped
    /\ emitted = <<>>
    /\ call = NoCall

Init == \E p \in Parameters(AddressLists) : Router_new(p)

HandleInput(now, input) ==
    /\ stream = Dropped
    /\ now >= clock
    /\ LET r == handle_input(parameters, mac_address, state, now, input)
       IN  /\ state' = r.state
           /\ stream' = r.actions
    /\ clock' = now
    /\ emitted' = <<>>
    /\ call' = CallOf(now, input, state)
    /\ UNCHANGED <<parameters, mac_address>>

Startup == \E now \in Instants : HandleInput(now, CommandStartup)

Shutdown == \E now \in Instants : HandleInput(now, CommandShutdown)

Timer == \E now \in Instants : HandleInput(now, InputTimer)

ReceiveShutdownAdvertisement ==
    \E now \in Instants, i \in Intervals :
        HandleInput(now, ShutdownAdvertisementPacket(i))

ReceiveAdvertisement ==
    \E now \in Instants, ip \in SenderIPs, prio \in SenderPriorities,
       i \in Intervals :
        HandleInput(now, AdvertisementPacket(ip, prio, i))

ReceiveRequestARP ==
    \E now \in Instants, tip \in TargetIPs :
        HandleInput(now, RequestARPPacket(TEST_SENDER_MAC, IP_LOW, tip))

ReceiveIP ==
    \E now \in Instants, tip \in TargetIPs,
       tmac \in {mac_address, TEST_SENDER_MAC} :
        HandleInput(now, IPPacket(tmac, tip))

NextAction ==
    /\ stream # Dropped
    /\ LET s == Actions_next(stream, parameters)
       IN  /\ stream' = s.actions
           /\ emitted' = emitted \o s.item
    /\ UNCHANGED <<parameters, mac_address, state, clock, call>>

DropStream ==
    /\ stream # Dropped
    /\ stream' = Dropped
    /\ emitted' = <<>>
    /\ call' = NoCall
    /\ UNCHANGED <<parameters, mac_address, state, clock>>

Next ==
    \/ Startup
    \/ Shutdown
    \/ Timer
    \/ ReceiveShutdownAdvertisement
    \/ ReceiveAdvertisement
    \/ ReceiveRequestARP
    \/ ReceiveIP
    \/ NextAction
    \/ DropStream

Spec == Init /\ [][Next]_vars

(***************************************************************************)
(* The whole action sequence of the call in progress: what has been drawn  *)
(* followed by what the stream still holds.  Take draws n times; every     *)
(* stream is exhausted after at most 2 + |virtual_addresses| items and     *)
(* keeps answering None from then on, so Drain is what collect() returns.  *)
(* Take splits the n draws in two halves; TakeRest has the first half      *)
(* fully drawn before the second half starts from the stream it left.      *)
(***************************************************************************)
Drawn(s) == [actions |-> s.actions, items |-> s.item]

Joined(h, r) == [actions |-> r.actions, items |-> h.items \o r.items]

RECURSIVE Take(_, _, _)
TakeRest(h, p, n) ==
    IF Len(h.items) >= 0 THEN Joined(h, Take(h.actions, p, n)) ELSE h

Take(a, p, n) ==
    IF n = 0 THEN [actions |-> a, items |-> <<>>]
    ELSE IF n = 1 THEN Drawn(Actions_next(a, p))
    ELSE TakeRest(Take(a, p, n \div 2), p, n - (n \div 2))

Drain(a, p) == Take(a, p, Len(p.virtual_addresses) + 3).items

Yielded == emitted \o Drain(stream, parameters)

(***************************************************************************)
(* A second specification: the same router configured with address lists   *)
(* around the u8 range of the NextARP offset.                              *)
(***************************************************************************)
LongList(n) == [k \in 1..n |-> IF k % 2 = 1 THEN V1 ELSE V2]

LongAddressLists == { LongList(U8_MAX), LongList(U8) }

LongModes == { ModeOwner, BackupMode(IP_MID, DEFAULT_PRIORITY, TRUE, FALSE) }

ParametersLong ==
    { p \in Parameters(LongAddressLists) :
        p.mode \in LongModes /\ p.advertisement_interval = 1 }

InitLong == \E p \in ParametersLong : Router_new(p)

SpecLong == InitLong /\ [][Next]_vars

(***************************************************************************)
(* A third specification: the same router receiving advertisements whose   *)
(* interval field ranges over the whole u16 of Interval, configured with   *)
(* priorities at both ends of 1..=254 and as Owner (255).                  *)
(***************************************************************************)
WideIntervals == { 100, 421, 21846, U16 - 1 }

WidePriorities == { 1, DEFAULT_PRIORITY, 254 }

WideModes ==
    {ModeOwner} \cup
    { BackupMode(IP_MID, prio, pre, FALSE) :
        prio \in WidePriorities, pre \in BOOLEAN }

ParametersWide ==
    { [vrid |-> v, virtual_addresses |-> <<V2>>,
       advertisement_interval |-> i, mode |-> m] :
        v \in VRIDs, i \in Intervals, m \in WideModes }

InitWide == \E p \in ParametersWide : Router_new(p)

ReceiveShutdownAdvertisementWide ==
    \E now \in Instants, i \in WideIntervals :
        HandleInput(now, ShutdownAdvertisementPacket(i))

ReceiveAdvertisementWide ==
    \E now \in Instants, ip \in SenderIPs, prio \in SenderPriorities,
       i \in WideIntervals :
        HandleInput(now, AdvertisementPacket(ip, prio, i))

NextWide ==
    \/ Next
    \/ ReceiveShutdownAdvertisementWide
    \/ ReceiveAdvertisementWide

SpecWide == InitWide /\ [][NextWide]_vars

(***************************************************************************)
(* A fourth specification: the same router configured, as the tests do,    *)
(* with an advertisement interval built by Interval::from_secs.            *)
(***************************************************************************)
MaxSeconds == 2

Seconds == 1..MaxSeconds

ParametersSecs ==
    { [vrid |-> v, virtual_addresses |-> <<V2>>,
       advertisement_interval |-> from_secs(s), mode |-> m] :
        v \in VRIDs, s \in Seconds, m \in LongModes }

InitSecs == \E p \in ParametersSecs : Router_new(p)

SpecSecs == InitSecs /\ [][Next]_vars

(***************************************************************************)
(* Router::next_timer, and a fifth specification in which the embedder     *)
(* also asks for it between two handle_input calls.  It borrows the router *)
(* immutably: only the record of the call is written.                      *)
(***************************************************************************)
next_timer_from_now(p, st, now) == instant_add(now, p.advertisement_interval)

next_timer(p, st, now) ==
    IF st.tag = "Initialized" THEN instant_add(now, p.advertisement_interval)
    ELSE IF st.tag = "Backup" THEN st.active_down_timer
    ELSE st.adver_timer

QueryOf(now, before, result) ==
    [now |-> now, live |-> FALSE, before |-> before,
     result |-> result, query |-> "next_timer"]

NextTimer ==
    \E now \in Instants :
        /\ stream = Dropped
        /\ now >= clock
        /\ clock' = now
        /\ call' = QueryOf(now, state, next_timer(parameters, state, now))
        /\ UNCHANGED <<parameters, mac_address, state, stream, emitted>>

NextQuery ==
    \/ Next
    \/ NextTimer

SpecQuery == Init /\ [][NextQuery]_vars

(***************************************************************************)
(* Construction of the configuration values, and a sixth specification in  *)
(* which the embedder builds VRID, VirtualAddresses and Priority from raw  *)
(* values with try_from before Router::new.  A refused value leaves the    *)
(* embedder with an Err and no router.                                     *)
(***************************************************************************)
Ok(v) == [ok |-> TRUE, value |-> v]

Err == [ok |-> FALSE]

Priority_try_from_nonzero(value) == IF value = SHUTDOWN THEN Err ELSE Ok(value)

Priority_try_from(value) ==
    IF value = SHUTDOWN \/ value = OWNER THEN Err ELSE Ok(value)

VRID_try_from_any(value) == Ok(value)

VRID_try_from(value) == IF value = 0 THEN Err ELSE Ok(value)

VirtualAddresses_try_from(value) == IF Len(value) = 0 THEN Err ELSE Ok(value)

RawVRIDs == { 0, 1, U8_MAX }

RawPriorities == { SHUTDOWN, 1, 254, OWNER }

RawAddressLists == { <<>>, <<V2>> }

NoRouter == [tag |-> "NoRouter"]

Refused(raw_vrid, raw_addresses, owner, raw_priority) ==
    /\ parameters = [owner |-> owner, raw_vrid |-> raw_vrid,
                     raw_addresses |-> raw_addresses,
                     raw_priority |-> raw_priority]
    /\ mac_address = <<>>
    /\ state = NoRouter
    /\ clock = 0
    /\ stream = Dropped
    /\ emitted = <<>>
    /\ call = NoCall

InitConfig ==
    \E raw_vrid \in RawVRIDs, raw_addresses \in RawAddressLists,
       owner \in BOOLEAN, pre \in BOOLEAN, acc \in BOOLEAN :
        \E raw_priority \in IF owner THEN {DEFAULT_PRIORITY}
                                     ELSE RawPriorities :
            LET v == VRID_try_from(raw_vrid)
                a == VirtualAddresses_try_from(raw_addresses)
                pr == Priority_try_from(raw_priority)
            IN  IF v.ok /\ a.ok /\ (owner \/ pr.ok)
                THEN Router_new(
                         [vrid |-> v.value, virtual_addresses |-> a.value,
                          advertisement_interval |-> 1,
                          mode |-> IF owner THEN ModeOwner
                                   ELSE BackupMode(IP_MID, pr.value, pre, acc)])
                ELSE Refused(raw_vrid, raw_addresses, owner, raw_priority)

NextConfig ==
    /\ state # NoRouter
    /\ Next

SpecConfig == InitConfig /\ [][NextConfig]_vars

(***************************************************************************)
(* A seventh specification: a router that hears nothing from an Active (no *)
(* Advertisement, no ShutdownAdvertisement) and is not shut down, whose    *)
(* embedder arms a timer at next_timer() while it is Backup.  TimerDue is  *)
(* that timer firing; it fires however much other traffic is interleaved,  *)
(* and the embedder always finishes with the stream of the previous call.  *)
(***************************************************************************)
TimerDue ==
    /\ state.tag = "Backup"
    /\ LET due == next_timer(parameters, state, clock)
       IN  HandleInput(IF due >= clock THEN due ELSE clock, InputTimer)

NextSilent ==
    \/ Startup
    \/ Timer
    \/ TimerDue
    \/ ReceiveRequestARP
    \/ ReceiveIP
    \/ NextAction
    \/ DropStream

SpecSilent ==
    /\ Init
    /\ [][NextSilent]_vars
    /\ SF_vars(TimerDue)
    /\ WF_vars(DropStream)

(***************************************************************************)
(* An eighth specification: a Backup-mode router with preempt = false on a *)
(* network whose Active keeps advertising: Startup is only sent to the     *)
(* Initialized router, and every Advertisement and every Timer input       *)
(* reaches the Backup before the deadline then in force.                   *)
(***************************************************************************)
ParametersHeard ==
    { p \in Parameters(AddressLists) :
        ~p.mode.owner /\ ~p.mode.preempt /\ ~p.mode.accept }

InitHeard == \E p \in ParametersHeard : Router_new(p)

InTime(now) == state.tag = "Backup" => now < state.active_down_timer

StartupHeard ==
    /\ state.tag = "Initialized"
    /\ Startup

TimerHeard ==
    \E now \in Instants :
        /\ InTime(now)
        /\ HandleInput(now, InputTimer)

ReceiveAdvertisementHeard ==
    \E now \in Instants, ip \in SenderIPs, prio \in SenderPriorities,
       i \in Intervals :
        /\ InTime(now)
        /\ HandleInput(now, AdvertisementPacket(ip, prio, i))

NextHeard ==
    \/ StartupHeard
    \/ TimerHeard
    \/ ReceiveAdvertisementHeard
    \/ NextAction
    \/ DropStream

SpecHeard == InitHeard /\ [][NextHeard]_vars

(***************************************************************************)
(* A ninth specification: two routers of the same virtual router on one    *)
(* link.  Here parameters, mac_address and state hold one value per        *)
(* router; every handle_input call is collected at once; emitted[r] is the *)
(* latest advertisement router r has sent that its peer has not processed  *)
(* yet.  `call` follows the conflict in progress: a conflict opens when    *)
(* both routers are Active, and `pending` holds the routers that have not  *)
(* yet processed the other's advertisement since.                          *)
(***************************************************************************)
Routers == {1, 2}

Peer(r) == 3 - r

PairModes ==
    { ModeOwner,
      BackupMode(IP_LOW, DEFAULT_PRIORITY, TRUE, FALSE),
      BackupMode(IP_MID, DEFAULT_PRIORITY, TRUE, FALSE),
      BackupMode(IP_LOW, 200, TRUE, FALSE) }

PairParameters(m) ==
    [vrid |-> 1, virtual_addresses |-> <<V2>>,
     advertisement_interval |-> 1, mode |-> m]

Conflict(st) == st[1].tag = "Active" /\ st[2].tag = "Active"

NoConflict == [live |-> FALSE, open |-> FALSE, pending |-> {}]

Round(c, before, after, done) ==
    IF ~Conflict(before) /\ Conflict(after)
    THEN [live |-> FALSE, open |-> TRUE, pending |-> Routers]
    ELSE IF c.open THEN [c EXCEPT !.pending = @ \ done]
    ELSE c

InitPair ==
    \E m1 \in PairModes, m2 \in PairModes :
        /\ <<priority(m1), primary_ip(PairParameters(m1))>>
               # <<priority(m2), primary_ip(PairParameters(m2))>>
        /\ parameters = <<PairParameters(m1), PairParameters(m2)>>
        /\ mac_address = <<mac_address_of(PairParameters(m1)),
                           mac_address_of(PairParameters(m2))>>
        /\ state = <<Initialized, Initialized>>
        /\ clock = 0
        /\ stream = Dropped
        /\ emitted = <<<<>>, <<>>>>
        /\ call = NoConflict

IsAdvertisement(action) ==
    action.type = "Send" /\ action.packet.kind = "Advertisement"

PairStep(r, now, input, consumed) ==
    LET res == handle_input(parameters[r], mac_address[r], state[r], now,
                            input)
        ads == SelectSeq(Drain(res.actions, parameters[r]), IsAdvertisement)
        after == [state EXCEPT ![r] = res.state]
        taken == IF consumed THEN [emitted EXCEPT ![Peer(r)] = <<>>]
                 ELSE emitted
    IN  /\ state' = after
        /\ emitted' = IF ads = <<>> THEN taken
                      ELSE [taken EXCEPT ![r] = <<ads[Len(ads)].packet>>]
        /\ clock' = now
        /\ call' = Round(call, state, after, IF consumed THEN {r} ELSE {})
        /\ UNCHANGED <<parameters, mac_address, stream>>

PairStartup ==
    \E r \in Routers :
        /\ state[r].tag = "Initialized"
        /\ PairStep(r, clock, CommandStartup, FALSE)

PairTimer ==
    \E r \in Routers :
        LET due == next_timer(parameters[r], state[r], clock)
            now == IF due >= clock THEN due ELSE clock
        IN  /\ state[r].tag # "Initialized"
            /\ now <= MILLIS_PER_CENTI * MaxTick
            /\ PairStep(r, now, InputTimer, FALSE)

PairDeliver ==
    \E r \in Routers :
        /\ emitted[Peer(r)] # <<>>
        /\ LET packet == emitted[Peer(r)][1]
           IN  PairStep(r, clock,
                        AdvertisementPacket(primary_ip(parameters[Peer(r)]),
                                            packet.priority, packet.interval),
                        TRUE)

NextPair ==
    \/ PairStartup
    \/ PairTimer
    \/ PairDeliver

SpecPair == InitPair /\ [][NextPair]_vars

(***************************************************************************)
(* A specification for cancelled streams.  The embedder may drop the       *)
(* stream at any point; `call` then remembers which Activate,              *)
(* GratuitousARP and Deactivate actions the dropped streams never          *)
(* delivered, for as long as the router stays in the state variant the     *)
(* cancelled call committed.                                               *)
(***************************************************************************)
Inputs ==
    {CommandStartup, CommandShutdown, InputTimer}
        \cup { ShutdownAdvertisementPacket(i) : i \in Intervals }
        \cup { AdvertisementPacket(ip, prio, i) :
                 ip \in SenderIPs, prio \in SenderPriorities, i \in Intervals }
        \cup { RequestARPPacket(TEST_SENDER_MAC, IP_LOW, tip) : tip \in TargetIPs }
        \cup { IPPacket(tmac, tip) :
                 tmac \in {mac_address, TEST_SENDER_MAC}, tip \in TargetIPs }

IsTransitionAction(action) ==
    \/ action.type = "Activate"
    \/ action.type = "Deactivate"
    \/ action.type = "Send" /\ action.packet.kind = "GratuitousARP"

Undelivered(a, p) ==
    LET rest == Drain(a, p)
    IN  { rest[k] : k \in { j \in 1..Len(rest) : IsTransitionAction(rest[j]) } }

CancelledCall(before, lost) == [live |-> FALSE, before |-> before, lost |-> lost]

LaterCall(before, lost) == [live |-> TRUE, before |-> before, lost |-> lost]

InitCancel ==
    \E p \in Parameters(AddressLists) :
        /\ parameters = p
        /\ mac_address = mac_address_of(p)
        /\ state = Initialized
        /\ clock = 0
        /\ stream = Dropped
        /\ emitted = <<>>
        /\ call = CancelledCall(Initialized, {})

HandleInputCancel ==
    \E now \in Instants, input \in Inputs :
        /\ stream = Dropped
        /\ now >= clock
        /\ LET r == handle_input(parameters, mac_address, state, now, input)
           IN  /\ state' = r.state
               /\ stream' = r.actions
        /\ clock' = now
        /\ emitted' = <<>>
        /\ call' = LaterCall(state, call.lost)
        /\ UNCHANGED <<parameters, mac_address>>

Cancel ==
    /\ stream # Dropped
    /\ stream' = Dropped
    /\ emitted' = <<>>
    /\ call' = CancelledCall(state,
                   (IF call.before.tag = state.tag THEN call.lost ELSE {})
                       \cup Undelivered(stream, parameters))
    /\ UNCHANGED <<parameters, mac_address, state, clock>>

NextCancel ==
    \/ HandleInputCancel
    \/ NextAction
    \/ Cancel

SpecCancel == InitCancel /\ [][NextCancel]_vars

(***************************************************************************)
(* Vocabulary of the properties.                                           *)
(***************************************************************************)
Called(kind) == call.live /\ call.input.kind = kind

CalledIn(kind, tag) == Called(kind) /\ call.before.tag = tag

ToU32(ip) == ip[1] * 16777216 + ip[2] * 65536 + ip[3] * 256 + ip[4]

SenderWins(p, input) ==
    \/ input.priority > priority(p.mode)
    \/ /\ input.priority = priority(p.mode)
       /\ ToU32(input.sender_ip) > ToU32(primary_ip(p))

GratuitousARPs(p) ==
    [k \in 1..Len(p.virtual_addresses) |->
        Send(GratuitousARP(mac_address, p.virtual_addresses[k]))]

ExpectedTransition(p) ==
    <<Activate, Send(Advertisement(priority(p.mode), p.advertisement_interval))>>
        \o GratuitousARPs(p)

TransitionToActiveSequence(p) == Drain(TransitionToActive(TtaActivate), p)

ShutdownAdvertisement(p) ==
    Send(Advertisement(SHUTDOWN, p.advertisement_interval))

(***************************************************************************)
(* C1: every transition into Active yields exactly Activate, then          *)
(* Send(Advertisement), then one Send(GratuitousARP) with the virtual MAC  *)
(* per configured virtual address, in configured order: 2 + k actions for  *)
(* a list of k addresses.                                                  *)
(***************************************************************************)
C1_TransitionYieldsAllARPs ==
    (call.live /\ call.before.tag # "Active" /\ state.tag = "Active")
        => /\ Yielded = ExpectedTransition(parameters)
           /\ Len(Yielded) = 2 + Len(parameters.virtual_addresses)

C4_StartupInBackupWaitsForDeadline ==
    (CalledIn("Startup", "Backup")
        /\ call.now < call.before.active_down_timer) =>
        /\ state = call.before
        /\ Yielded = <<>>

(***************************************************************************)
(* C5: in Backup, a Timer input promotes iff now >= active_down_timer:     *)
(* then the state is Active{adver_timer = now + advertisement_interval}    *)
(* and the stream is the TransitionToActive sequence; otherwise the state  *)
(* is unchanged and the stream is empty.                                   *)
(***************************************************************************)
C5_BackupTimerPromotesIffDue ==
    CalledIn("Timer", "Backup") =>
        IF call.now >= call.before.active_down_timer
        THEN /\ state = Active(call.now + MILLIS_PER_CENTI
                                 * parameters.advertisement_interval)
             /\ Yielded = TransitionToActiveSequence(parameters)
             /\ Len(Yielded) >= 2
        ELSE /\ state = call.before
             /\ Yielded = <<>>

C5_Witness ==
    /\ CalledIn("Timer", "Backup")
    /\ call.now = call.before.active_down_timer
    /\ state.tag = "Active"
    /\ stream.kind = "TransitionToActive"
    /\ emitted = TransitionToActiveSequence(parameters)

(***************************************************************************)
(* C6: in Active, a Timer input with now >= adver_timer yields exactly one *)
(* Send(Advertisement) and sets adver_timer = now +                        *)
(* advertisement_interval; with now < adver_timer it yields nothing and    *)
(* leaves the state unchanged.                                             *)
(***************************************************************************)
C6_ActiveTimerAdvertisesIffDue ==
    CalledIn("Timer", "Active") =>
        IF call.now >= call.before.adver_timer
        THEN /\ state = Active(call.now + MILLIS_PER_CENTI
                                 * parameters.advertisement_interval)
             /\ Yielded = <<SendAdvertisement(parameters)>>
        ELSE /\ state = call.before
             /\ Yielded = <<>>

C6_Witness ==
    /\ CalledIn("Timer", "Active")
    /\ call.now = call.before.adver_timer
    /\ state.tag = "Active"
    /\ state.adver_timer > call.before.adver_timer
    /\ emitted = <<SendAdvertisement(parameters)>>

(***************************************************************************)
(* C7: in Backup, an Advertisement{priority = p, interval = i} with        *)
(* p >= own priority, or with any p when preempt is false, sets the state  *)
(* to Backup{active_adver_interval = i, active_down_timer = now +          *)
(* active_down_interval(i)} and yields no actions.                         *)
(***************************************************************************)
C7_BackupAdoptsAdvertisement ==
    (CalledIn("Advertisement", "Backup")
        /\ (call.input.priority >= priority(parameters.mode)
            \/ ~should_preempt(parameters.mode))) =>
        LET i == call.input.max_advertise_interval
        IN  /\ state = Backup(call.now + MILLIS_PER_CENTI
                                * active_down_interval(parameters, i), i)
            /\ Yielded = <<>>

(***************************************************************************)
(* C8: in Backup with preempt true, an Advertisement of strictly lower     *)
(* priority than the router's own leaves the state unchanged and yields    *)
(* no actions.                                                             *)
(***************************************************************************)
C8_BackupIgnoresLowerPriority ==
    (CalledIn("Advertisement", "Backup")
        /\ should_preempt(parameters.mode)
        /\ call.input.priority < priority(parameters.mode)) =>
        /\ state = call.before
        /\ Yielded = <<>>

C8_Witness ==
    /\ CalledIn("Advertisement", "Backup")
    /\ should_preempt(parameters.mode)
    /\ call.input.priority < priority(parameters.mode)
    /\ call.input.max_advertise_interval # call.before.active_adver_interval
    /\ call.now > 0
    /\ state = call.before

(***************************************************************************)
(* C9: in Backup, a ShutdownAdvertisement{interval = i} sets the state to  *)
(* Backup{active_adver_interval = i, active_down_timer = now +             *)
(* skew_time(i)}, whatever preempt and priority are, and yields no         *)
(* actions.                                                                *)
(***************************************************************************)
C9_BackupShutdownAdvertisement ==
    CalledIn("ShutdownAdvertisement", "Backup") =>
        LET i == call.input.max_advertise_interval
        IN  /\ state = Backup(call.now + MILLIS_PER_CENTI
                                * skew_time(parameters, i), i)
            /\ Yielded = <<>>

C9_Witness ==
    /\ CalledIn("ShutdownAdvertisement", "Backup")
    /\ skew_time(parameters, call.input.max_advertise_interval) > 0
    /\ ~should_preempt(parameters.mode)
    /\ state.tag = "Backup"
    /\ state.active_down_timer < call.before.active_down_timer
    /\ state.active_adver_interval # call.before.active_adver_interval

(***************************************************************************)
(* C10: a Shutdown command in Active sets the state to Initialized and     *)
(* yields exactly Send(ShutdownAdvertisement) (priority 0, the configured  *)
(* advertisement interval) followed by Deactivate.                         *)
(***************************************************************************)
C10_ActiveShutdown ==
    CalledIn("Shutdown", "Active") =>
        /\ state = Initialized
        /\ Yielded = <<ShutdownAdvertisement(parameters), Deactivate>>

C10_Witness ==
    /\ CalledIn("Shutdown", "Active")
    /\ state = Initialized
    /\ emitted = <<ShutdownAdvertisement(parameters), Deactivate>>

(***************************************************************************)
(* C11: while the router is Initialized, every input other than Startup    *)
(* (Shutdown, Timer, every kind of received packet) yields an empty action *)
(* stream and leaves the state Initialized.                                *)
(***************************************************************************)
C11_InitializedYieldsNothing ==
    (call.live /\ call.before.tag = "Initialized"
        /\ call.input.kind # "Startup") =>
        /\ state = Initialized
        /\ Yielded = <<>>

(***************************************************************************)
(* C11 as amended: while Initialized, every input other than Startup       *)
(* leaves the state Initialized; Shutdown, Timer, ShutdownAdvertisement,   *)
(* Advertisement and RequestARP yield an empty stream, and an IP packet    *)
(* yields exactly Route(Reject).                                           *)
(***************************************************************************)
C11_InitializedInertExceptReject ==
    (call.live /\ call.before.tag = "Initialized"
        /\ call.input.kind # "Startup") =>
        /\ state = Initialized
        /\ Yielded = IF call.input.kind = "IP"
                     THEN <<[type |-> "Route", route |-> "Reject"]>>
                     ELSE <<>>

C11_Witness ==
    /\ CalledIn("Timer", "Initialized")
    /\ call.now > 0
    /\ state = Initialized
    /\ stream = ActionsNone

(***************************************************************************)
(* C12: Startup from Initialized in Owner mode sets the state to           *)
(* Active{adver_timer = now + advertisement_interval} and yields the       *)
(* TransitionToActive sequence, which opens with Activate and the          *)
(* advertisement of priority 255.                                          *)
(***************************************************************************)
C12_OwnerStartupBecomesActive ==
    (CalledIn("Startup", "Initialized") /\ parameters.mode.owner) =>
        /\ state = [tag |-> "Active",
                    adver_timer |-> call.now + MILLIS_PER_CENTI
                                        * parameters.advertisement_interval]
        /\ Yielded = TransitionToActiveSequence(parameters)
        /\ Len(Yielded) >= 2
        /\ Yielded[1] = [type |-> "Activate"]
        /\ Yielded[2] = Send(Advertisement(OWNER,
                                           parameters.advertisement_interval))

C12_Witness ==
    /\ CalledIn("Startup", "Initialized")
    /\ parameters.mode.owner
    /\ state.tag = "Active"
    /\ Len(emitted) = Len(parameters.virtual_addresses) + 2

(***************************************************************************)
(* C13: Startup from Initialized in Backup mode sets the state to          *)
(* Backup{active_adver_interval = advertisement_interval,                  *)
(* active_down_timer = now + active_down_interval(advertisement_interval)} *)
(* and yields no actions.                                                  *)
(***************************************************************************)
C13_BackupStartupArmsDownTimer ==
    (CalledIn("Startup", "Initialized") /\ ~parameters.mode.owner) =>
        /\ state = [tag |-> "Backup",
                    active_down_timer |->
                        call.now + MILLIS_PER_CENTI
                            * active_down_interval(parameters,
                                  parameters.advertisement_interval),
                    active_adver_interval |-> parameters.advertisement_interval]
        /\ Yielded = <<>>

C13_Witness ==
    /\ CalledIn("Startup", "Initialized")
    /\ ~parameters.mode.owner
    /\ state.tag = "Backup"
    /\ state.active_down_timer > call.now + MILLIS_PER_CENTI * DOWN_FACTOR
                                     * parameters.advertisement_interval
    /\ stream = ActionsNone

C15_ActiveAnswersShutdownAdvertisement ==
    CalledIn("ShutdownAdvertisement", "Active") =>
        /\ state.tag = "Active"
        /\ state.adver_timer = call.now + MILLIS_PER_CENTI
                                   * parameters.advertisement_interval
        /\ Len(Yielded) = 1
        /\ Yielded[1] = Send(Advertisement(priority(parameters.mode),
                                           parameters.advertisement_interval))

C15_Witness ==
    /\ CalledIn("ShutdownAdvertisement", "Active")
    /\ call.input.max_advertise_interval # parameters.advertisement_interval
    /\ call.before.adver_timer # state.adver_timer
    /\ Len(emitted) = 1

(***************************************************************************)
(* C16: for an IP input, Route(Accept) is emitted only when the router is  *)
(* Active, target_mac is the virtual MAC, target_ip is a virtual address   *)
(* and should_accept() is true; in Active with the matching MAC and one of *)
(* the other conditions false the single action is Route(Forward); in      *)
(* Active with another MAC the stream is empty.                            *)
(***************************************************************************)
C16_ActiveRoutesIP ==
    Called("IP") =>
        LET accepts ==
                /\ call.before.tag = "Active"
                /\ call.input.target_mac = <<0, 0, 94, 0, 1, parameters.vrid>>
                /\ \E k \in 1..Len(parameters.virtual_addresses) :
                       parameters.virtual_addresses[k] = call.input.target_ip
                /\ should_accept(parameters.mode)
            Accept == [type |-> "Route", route |-> "Accept"]
            Forward == [type |-> "Route", route |-> "Forward"]
        IN  /\ (\E k \in 1..Len(Yielded) : Yielded[k] = Accept) => accepts
            /\ call.before.tag = "Active" =>
                  Yielded =
                      IF call.input.target_mac
                             # <<0, 0, 94, 0, 1, parameters.vrid>>
                      THEN <<>>
                      ELSE IF accepts THEN <<Accept>> ELSE <<Forward>>

C16_Witness ==
    /\ CalledIn("IP", "Active")
    /\ call.input.target_mac = mac_address
    /\ should_accept(parameters.mode)
    /\ ~contains(parameters.virtual_addresses, call.input.target_ip)
    /\ emitted = <<Route("Forward")>>

(***************************************************************************)
(* C17: an IP input received while the router is Initialized or Backup     *)
(* yields exactly one action, Route(Reject), whatever its target_mac and   *)
(* target_ip, and leaves the state unchanged.                              *)
(***************************************************************************)
C17_InactiveRejectsIP ==
    (Called("IP") /\ call.before.tag \in {"Initialized", "Backup"}) =>
        /\ Yielded = <<[type |-> "Route", route |-> "Reject"]>>
        /\ state = call.before

C17_Witness ==
    /\ CalledIn("IP", "Backup")
    /\ call.input.target_mac = mac_address
    /\ contains(parameters.virtual_addresses, call.input.target_ip)
    /\ should_accept(parameters.mode)
    /\ emitted = <<Route("Reject")>>

(***************************************************************************)
(* C18: Send(ReplyARP) is emitted iff the router is Active and the         *)
(* RequestARP target_ip is a virtual address; the reply has sender_mac =   *)
(* virtual MAC, sender_ip = request target_ip, target_mac = request        *)
(* sender_mac, target_ip = request sender_ip; in Backup and Initialized,   *)
(* and in Active for a non-virtual target, a RequestARP yields no action.  *)
(***************************************************************************)
C18_ReplyARPOnlyFromActive ==
    call.live =>
        LET answers ==
                /\ call.input.kind = "RequestARP"
                /\ call.before.tag = "Active"
                /\ \E k \in 1..Len(parameters.virtual_addresses) :
                       parameters.virtual_addresses[k] = call.input.target_ip
            replies ==
                \E k \in 1..Len(Yielded) :
                    /\ Yielded[k].type = "Send"
                    /\ Yielded[k].packet.kind = "ReplyARP"
        IN  /\ replies <=> answers
            /\ answers =>
                  Yielded =
                      <<[type |-> "Send",
                         packet |->
                             [kind |-> "ReplyARP",
                              sender_mac |->
                                  <<0, 0, 94, 0, 1, parameters.vrid>>,
                              sender_ip |-> call.input.target_ip,
                              target_mac |-> call.input.sender_mac,
                              target_ip |-> call.input.sender_ip]]>>
            /\ (call.input.kind = "RequestARP" /\ ~answers) => Yielded = <<>>

C18_Witness ==
    /\ CalledIn("RequestARP", "Active")
    /\ call.input.target_ip = parameters.virtual_addresses[
                                  Len(parameters.virtual_addresses)]
    /\ Len(parameters.virtual_addresses) > 1
    /\ Len(emitted) = 1
    /\ emitted[1].packet.sender_ip # emitted[1].packet.target_ip

(***************************************************************************)
(* C19: skew_time(i) equals floor(((256 - priority) * i) / 256) exactly,   *)
(* with no wrap-around in the product, for every priority in 1..=255 and   *)
(* every interval an Interval can hold.  Observed where the router stores  *)
(* now + skew_time(i): a Backup receiving ShutdownAdvertisement{i}.        *)
(***************************************************************************)
C19_SkewTimeExact ==
    CalledIn("ShutdownAdvertisement", "Backup") =>
        state.active_down_timer =
            call.now + MILLIS_PER_CENTI
                * (((SKEW_BASE - priority(parameters.mode))
                       * call.input.max_advertise_interval) \div SKEW_BASE)

(***************************************************************************)
(* C20: active_down_interval(i) equals 3*i + skew_time(i) exactly, with no *)
(* wrap-around in the multiplication by 3 or in the addition, for every    *)
(* priority in 1..=255 and every interval an Interval can hold.  Observed  *)
(* where the router stores now + active_down_interval(i): an               *)
(* Advertisement{i} that leaves the router in a newly written Backup.      *)
(***************************************************************************)
C20_ActiveDownIntervalExact ==
    (Called("Advertisement") /\ state.tag = "Backup"
        /\ state # call.before) =>
        state.active_down_timer =
            call.now + MILLIS_PER_CENTI
                * (DOWN_FACTOR * call.input.max_advertise_interval
                   + skew_time(parameters, call.input.max_advertise_interval))

(***************************************************************************)
(* C21: an Interval counts centiseconds: Interval::from_secs(s) denotes s  *)
(* seconds, that is it equals Interval::from_centis(100 * s), converts to  *)
(* a duration of exactly s seconds (1000 * s ms), and added to an instant  *)
(* advances it by s seconds.  Observed on the configured advertisement     *)
(* interval and on the adver_timer an Owner's Startup computes from it.    *)
(***************************************************************************)
C21_FromSecsIsSeconds ==
    \A s \in Seconds :
        parameters.advertisement_interval = from_secs(s) =>
            /\ parameters.advertisement_interval = from_centis(100 * s)
            /\ into_duration(parameters.advertisement_interval) = 1000 * s
            /\ (CalledIn("Startup", "Initialized") /\ parameters.mode.owner)
                  => state.adver_timer = call.now + 1000 * s

(***************************************************************************)
(* C22: next_timer(now) returns adver_timer when the state is Active,      *)
(* active_down_timer when Backup, and now + advertisement_interval when    *)
(* Initialized, and calling it never changes the router's state.           *)
(***************************************************************************)
C22_NextTimerReadsDeadline ==
    (~call.live /\ "query" \in DOMAIN call) =>
        /\ call.result =
               IF call.before.tag = "Active" THEN call.before.adver_timer
               ELSE IF call.before.tag = "Backup"
               THEN call.before.active_down_timer
               ELSE call.now + MILLIS_PER_CENTI
                        * parameters.advertisement_interval
        /\ state = call.before

C22_Witness ==
    /\ ~call.live
    /\ "query" \in DOMAIN call
    /\ call.before.tag = "Backup"
    /\ call.now > 0
    /\ call.result # call.now + MILLIS_PER_CENTI
                         * parameters.advertisement_interval
    /\ call.result = state.active_down_timer

(***************************************************************************)
(* C23: a Shutdown command in Backup sets the state to Initialized and     *)
(* yields no actions: no shutdown advertisement and no Deactivate.         *)
(***************************************************************************)
C23_BackupShutdownIsSilent ==
    CalledIn("Shutdown", "Backup") =>
        /\ state = [tag |-> "Initialized"]
        /\ Yielded = <<>>

C23_Witness ==
    /\ CalledIn("Shutdown", "Backup")
    /\ call.now > 0
    /\ state.tag = "Initialized"
    /\ stream = ActionsNone

(***************************************************************************)
(* C24: the effective priority is 255 if and only if the mode is Owner (a  *)
(* Backup mode's configured priority is always in 1..=254); in Owner mode  *)
(* should_accept() and should_preempt() are both true, in Backup mode they *)
(* equal the configured accept and preempt flags.                          *)
(***************************************************************************)
C24_PriorityOwnerIffOwnerMode ==
    state.tag # "NoRouter" =>
        /\ (priority(parameters.mode) = 255) <=> parameters.mode.owner
        /\ parameters.mode.owner =>
              /\ should_accept(parameters.mode)
              /\ should_preempt(parameters.mode)
        /\ ~parameters.mode.owner =>
              /\ priority(parameters.mode) \in 1..254
              /\ should_accept(parameters.mode) = parameters.mode.accept
              /\ should_preempt(parameters.mode) = parameters.mode.preempt

C24_Witness ==
    /\ state.tag = "Active"
    /\ ~parameters.mode.owner
    /\ priority(parameters.mode) = 254
    /\ ~should_preempt(parameters.mode)
    /\ should_accept(parameters.mode)

(***************************************************************************)
(* C25: construction refuses invalid configuration with an error value and *)
(* builds nothing: VirtualAddresses from an empty list fails, VRID from 0  *)
(* fails, Priority from 0 or 255 fails; every other u8 value and every     *)
(* non-empty list is accepted.                                             *)
(***************************************************************************)
C25_ConstructionRefusesInvalid ==
    IF state.tag = "NoRouter"
    THEN /\ \/ parameters.raw_vrid = 0
            \/ parameters.raw_addresses = <<>>
            \/ /\ ~parameters.owner
               /\ parameters.raw_priority \in {0, 255}
         /\ mac_address = <<>>
         /\ stream = Dropped
         /\ ~call.live
    ELSE /\ parameters.vrid \in 1..255
         /\ parameters.virtual_addresses # <<>>
         /\ ~parameters.mode.owner => parameters.mode.priority \in 1..254

C25_Witness ==
    /\ state.tag = "NoRouter"
    /\ parameters.raw_vrid = 255
    /\ parameters.raw_addresses # <<>>
    /\ ~parameters.owner
    /\ parameters.raw_priority = 255

(***************************************************************************)
(* C26: for any sequence of Timer, Advertisement, ShutdownAdvertisement,   *)
(* IP and ARP inputs with non-decreasing instants, every time the Backup   *)
(* state is entered or rewritten its active_down_timer is >= the instant   *)
(* of the input that wrote it, and across two consecutive Backup writes    *)
(* the stored active_down_timer never moves backward.  A previous Backup   *)
(* whose interval differs from the configured one was written by an        *)
(* Advertisement or a ShutdownAdvertisement.                               *)
(***************************************************************************)
C26_DownTimerNeverMovesBackward ==
    (call.live
        /\ call.input.kind \in {"Timer", "Advertisement",
                                "ShutdownAdvertisement", "IP", "RequestARP"}
        /\ state.tag = "Backup" /\ state # call.before) =>
        /\ state.active_down_timer >= call.now
        /\ (call.before.tag = "Backup"
               /\ call.before.active_adver_interval
                      # parameters.advertisement_interval) =>
              state.active_down_timer >= call.before.active_down_timer

(***************************************************************************)
(* C26 as amended: under the same inputs, every time the Backup state is   *)
(* entered or rewritten its active_down_timer is >= the instant of the     *)
(* input that wrote it: now + skew_time(i) after ShutdownAdvertisement{i}, *)
(* now + active_down_interval(i) after Advertisement{i}.  A later write    *)
(* may store an earlier deadline than the one it replaces.                 *)
(***************************************************************************)
C26_DownTimerNotBeforeItsInput ==
    (call.live
        /\ call.input.kind \in {"Timer", "Advertisement",
                                "ShutdownAdvertisement", "IP", "RequestARP"}
        /\ state.tag = "Backup" /\ state # call.before) =>
        /\ state.active_down_timer >= call.now
        /\ call.input.kind \in {"Advertisement", "ShutdownAdvertisement"}
        /\ state.active_down_timer - call.now =
               MILLIS_PER_CENTI
                   * (IF call.input.kind = "ShutdownAdvertisement"
                      THEN skew_time(parameters,
                                     call.input.max_advertise_interval)
                      ELSE active_down_interval(parameters,
                               call.input.max_advertise_interval))

C26_Witness ==
    /\ CalledIn("ShutdownAdvertisement", "Backup")
    /\ call.before.active_adver_interval # parameters.advertisement_interval
    /\ call.now > 0
    /\ state.active_down_timer < call.before.active_down_timer
    /\ state.active_down_timer >= call.now

(***************************************************************************)
(* C27: a router in Backup that receives no Advertisement and no           *)
(* ShutdownAdvertisement, and whose embedder delivers a Timer input at or  *)
(* after next_timer(), eventually becomes Active; the promotion happens on *)
(* the first Timer input whose instant is >= active_down_timer (an earlier *)
(* Timer input leaves it Backup).                                          *)
(***************************************************************************)
C27_SilentBackupBecomesActive ==
    /\ (state.tag = "Backup") ~> (state.tag = "Active")
    /\ [](CalledIn("Timer", "Backup") =>
             IF call.now >= call.before.active_down_timer
             THEN state.tag = "Active"
             ELSE state.tag = "Backup")

C27_Witness ==
    /\ CalledIn("Timer", "Backup")
    /\ call.now = call.before.active_down_timer
    /\ call.now > MILLIS_PER_CENTI * MaxTick
    /\ state.tag = "Active"

(***************************************************************************)
(* C28: a Backup router with preempt = false that receives an              *)
(* Advertisement (of any priority, lower than its own included) before     *)
(* each active_down_timer deadline and is never sent Startup never becomes *)
(* Active, however many Timer inputs are interleaved: every Advertisement  *)
(* moves the deadline to now + active_down_interval(i).                    *)
(***************************************************************************)
C28_HeardNonPreemptNeverActive ==
    /\ state.tag # "Active"
    /\ CalledIn("Advertisement", "Backup") =>
          /\ state.tag = "Backup"
          /\ state.active_adver_interval = call.input.max_advertise_interval
          /\ state.active_down_timer =
                 call.now + MILLIS_PER_CENTI
                     * active_down_interval(parameters,
                           call.input.max_advertise_interval)
          /\ state.active_down_timer > call.now

C28_Witness ==
    /\ CalledIn("Advertisement", "Backup")
    /\ call.input.priority < priority(parameters.mode)
    /\ call.now > 0
    /\ state.tag = "Backup"
    /\ state.active_down_timer > call.before.active_down_timer
    /\ state.active_down_timer > MILLIS_PER_CENTI * MaxTick

C30_ActiveOwnerNeverYields ==
    (call.live /\ call.before.tag = "Active" /\ parameters.mode.owner) =>
        /\ call.input.kind = "Advertisement" => state.tag = "Active"
        /\ state.tag # "Active" => call.input.kind = "Shutdown"

(***************************************************************************)
(* C31: the state change of handle_input is committed when it returns,     *)
(* before any action is drawn.  While the stream of a promotion exists the *)
(* state is already Active, and while the stream of a shutdown exists it   *)
(* is already Initialized, however little has been drawn; drawing from the *)
(* stream or dropping it never changes the state, so after a drop the      *)
(* state still shows what the cancelled call committed (Active when an     *)
(* Activate or GratuitousARP was left undelivered, not Active when a       *)
(* Deactivate was); and no later call yields an Activate, GratuitousARP or *)
(* Deactivate action that a dropped stream left undelivered.               *)
(***************************************************************************)
C31_StateCommittedBeforeDraw ==
    /\ [](/\ stream.kind = "TransitionToActive" => state.tag = "Active"
          /\ stream.kind = "ShutdownActive" => state = Initialized
          /\ (~call.live /\ Deactivate \in call.lost) => state.tag # "Active"
          /\ (~call.live /\ call.lost # {} /\ Deactivate \notin call.lost)
                => state.tag = "Active"
          /\ call.live => \A k \in 1..Len(Yielded) : Yielded[k] \notin call.lost)
    /\ [][stream # Dropped => state' = state]_vars

C31_Witness ==
    /\ call.live
    /\ call.before.tag = "Active"
    /\ Activate \in call.lost
    /\ Yielded # <<>>

(***************************************************************************)
(* C32: a RequestARP or IP input never changes the router's state,         *)
(* whatever the state: the variant and the stored adver_timer,             *)
(* active_down_timer and active_adver_interval after the call are those    *)
(* before it; and no step of any kind changes the router's parameters or   *)
(* its virtual MAC.                                                        *)
(***************************************************************************)
C32_PacketsLeaveStateAlone ==
    /\ []((Called("RequestARP") \/ Called("IP")) => state = call.before)
    /\ [][parameters' = parameters /\ mac_address' = mac_address]_vars

C32_Witness ==
    /\ Called("IP")
    /\ call.before.tag = "Active"
    /\ call.input.target_mac # mac_address
    /\ state = call.before

====
